---- MODULE Spec2Model ----
(***************************************************************************)
(* Model of the identifier resolver (src/lib/matcher.js) and of the        *)
(* schema-adaptive enable/disable engine (src/lib/schema.js) of ccmcp.     *)
(*                                                                         *)
(* JavaScript values are tagged records, so that values of different JS    *)
(* types can be compared.  JS strings that the code inspects character by  *)
(* character (ids, keys, names, identifiers) are sequences of one-letter   *)
(* strings.  Objects that the code reaches through a reference (the server *)
(* entries) live in a heap and the document holds references to them, so   *)
(* that `item.def` aliases the document exactly as it does in JavaScript.  *)
(* The display-only item fields `command` and `transport` are left out.    *)
(***************************************************************************)
EXTENDS Integers, Sequences, FiniteSets, TLC

VARIABLES cfg, last, first, disk, pc

vars == <<cfg, last, first, disk, pc>>

----------------------------------------------------------------------------
(* JavaScript values *)

Undefined == [t |-> "undefined"]
JNull == [t |-> "null"]
JStr(s) == [t |-> "string", s |-> s]
JBool(b) == [t |-> "boolean", b |-> b]
JNum(n) == [t |-> "number", n |-> n]
\* a server entry held by value: f maps own field names to values
JObj(f) == [t |-> "object", f |-> f]
\* a keyed container: kv is the own-property list in insertion order
JMap(kv) == [t |-> "map", kv |-> kv]
JArr(el) == [t |-> "array", el |-> el]
\* a reference to heap object r
Ref(r) == [t |-> "ref", r |-> r]

\* JS truthiness
Truthy(v) ==
  CASE v.t = "undefined" -> FALSE
    [] v.t = "null" -> FALSE
    [] v.t = "string" -> v.s # <<>>
    [] v.t = "boolean" -> v.b
    [] v.t = "number" -> v.n # 0
    [] OTHER -> TRUE

IsArray(v) == v.t = "array"
isMapValue(v) == v.t = "map"
\* typeof v === 'object' (null included, as in JS)
TypeofObject(v) == v.t \in {"null", "object", "map", "array", "ref"}

EmptyObj == [f \in {} |-> Undefined]

Range(s) == {s[i] : i \in 1..Len(s)}

----------------------------------------------------------------------------
(* Strings *)

\* the lower-case letter of each capital; the strings of the model are ASCII
Folded ==
  [A |-> "a", B |-> "b", C |-> "c", D |-> "d", E |-> "e", F |-> "f", G |-> "g",
   H |-> "h", I |-> "i", J |-> "j", K |-> "k", L |-> "l", M |-> "m", N |-> "n",
   O |-> "o", P |-> "p", Q |-> "q", R |-> "r", S |-> "s", T |-> "t", U |-> "u",
   V |-> "v", W |-> "w", X |-> "x", Y |-> "y", Z |-> "z"]

LowerChar(c) == IF c \in DOMAIN Folded THEN Folded[c] ELSE c

toLowerCase(s) == [i \in 1..Len(s) |-> LowerChar(s[i])]

Min2(a, b) == IF a <= b THEN a ELSE b

\* dp[i][j] of the dynamic program: distance between a[1..i] and b[1..j]
RECURSIVE dp(_, _, _, _)
dp(a, b, i, j) ==
  IF j = 0 THEN i
  ELSE IF i = 0 THEN j
  ELSE LET cost == IF a[i] = b[j] THEN 0 ELSE 1
       IN Min2(Min2(dp(a, b, i - 1, j) + 1, dp(a, b, i, j - 1) + 1),
               dp(a, b, i - 1, j - 1) + cost)

\* a slip that compares the strings without regard to case
levenshteinFolded(a, b) == dp(toLowerCase(a), toLowerCase(b), Len(a), Len(b))

levenshtein(a, b) == dp(a, b, Len(a), Len(b))

\* utils.js safeStr, on the values ids and names take in the model
safeStr(x) ==
  CASE x.t \in {"null", "undefined"} -> <<>>
    [] x.t = "string" -> x.s
    [] x.t = "boolean" -> IF x.b THEN <<"t", "r", "u", "e">> ELSE <<"f", "a", "l", "s", "e">>

----------------------------------------------------------------------------
(* matcher.js.  An item is a record with fields key, id, name (each         *)
(* Undefined or a JStr), def (a Ref), container, status, shape, index.      *)

MaxSuggestions == 5

\* a slip that pushes a candidate for a field the item does not have
candOfAny(it, type) ==
  LET v == CASE type = "id" -> it.id [] type = "key" -> it.key [] OTHER -> it.name
  IN <<[type |-> type, value |-> IF Truthy(v) THEN v.s ELSE <<>>, item |-> it]>>

\* the value `it.id ? ... : skip` pushes; type is kept as in the code
candOf(it, type) ==
  LET v == CASE type = "id" -> it.id [] type = "key" -> it.key [] OTHER -> it.name
  IN IF Truthy(v) THEN <<[type |-> type, value |-> v.s, item |-> it]>> ELSE <<>>

RECURSIVE candidates(_)
candidates(list) ==
  IF list = <<>> THEN <<>>
  ELSE candOf(Head(list), "id") \o candOf(Head(list), "key")
         \o candOf(Head(list), "name") \o candidates(Tail(list))

\* a slip that leaves the candidates in generation order
sortUnsorted(scored, from, upto) == scored

\* Array.prototype.sort with (a, b) => a.dist - b.dist is stable: elements
\* of equal distance keep their order, so the result is the concatenation of
\* the elements of distance d, for d = from, from + 1, ..., upto.
RECURSIVE sortByDist(_, _, _)
sortByDist(scored, from, upto) ==
  IF from > upto THEN <<>>
  ELSE SelectSeq(scored, LAMBDA c : c.dist = from) \o sortByDist(scored, from + 1, upto)

RECURSIVE maxDist(_)
maxDist(scored) ==
  IF scored = <<>> THEN 0
  ELSE LET m == maxDist(Tail(scored))
       IN IF Head(scored).dist > m THEN Head(scored).dist ELSE m

nearestSuggestions(list, ident) ==
  LET cand == candidates(list)
      scored == [i \in 1..Len(cand) |->
                   [type |-> cand[i].type, value |-> cand[i].value, item |-> cand[i].item,
                    dist |-> levenshtein(toLowerCase(ident), toLowerCase(cand[i].value))]]
      sorted == sortByDist(scored, 0, maxDist(scored))
  IN [i \in 1..Len(sorted) |-> sorted[i].item]

\* a slip that forgets the cap
sliceAll(s, n) == s

\* Array.prototype.slice(0, n)
slice(s, n) == SubSeq(s, 1, Min2(n, Len(s)))

\* list.filter(it => selector(it) && selector(it).toLowerCase() === needle)
by(list, field, needle) ==
  SelectSeq(list, LAMBDA it :
    LET v == CASE field = "id" -> it.id [] field = "key" -> it.key [] OTHER -> it.name
    IN Truthy(v) /\ toLowerCase(v.s) = needle)

\* a slip that tries `key` before `id`
matchIdentifierKeyFirst(list, ident) ==
  LET needle == toLowerCase(ident)
      byId == by(list, "id", needle)
      byKey == by(list, "key", needle)
      matches == IF Len(byKey) = 0
                 THEN IF Len(byId) = 0 THEN by(list, "name", needle) ELSE byId
                 ELSE byKey
  IN IF Len(matches) = 1 THEN [ok |-> TRUE, item |-> matches[1]]
     ELSE IF Len(matches) > 1
     THEN [ok |-> FALSE, ambiguous |-> TRUE, suggestions |-> slice(matches, MaxSuggestions)]
     ELSE [ok |-> FALSE, ambiguous |-> FALSE,
           suggestions |-> slice(nearestSuggestions(list, ident), MaxSuggestions)]

matchIdentifier(list, ident) ==
  LET needle == toLowerCase(ident)
      byId == by(list, "id", needle)
      byKey == by(list, "key", needle)
      matches == IF Len(byId) = 0
                 THEN IF Len(byKey) = 0 THEN by(list, "name", needle) ELSE byKey
                 ELSE byId
  IN IF Len(matches) = 1 THEN [ok |-> TRUE, item |-> matches[1]]
     ELSE IF Len(matches) > 1
     THEN [ok |-> FALSE, ambiguous |-> TRUE, suggestions |-> slice(matches, MaxSuggestions)]
     ELSE [ok |-> FALSE, ambiguous |-> FALSE,
           suggestions |-> slice(nearestSuggestions(list, ident), MaxSuggestions)]

----------------------------------------------------------------------------
(* Documents.  A document held by value (the variable cfg) is a function    *)
(* from its top-level field names to values; the two containers are JMap    *)
(* or JArr values whose entries are JNull or JObj.  In memory the entries   *)
(* are objects with identity: mem = [doc, heap], where the containers of    *)
(* doc hold JNull or Ref(r) and heap[r] is the field map of object r.       *)
(* Keys are ordinary property names: `__proto__`, which an assignment takes *)
(* for the prototype, and integer-like keys, which Object.keys lists first, *)
(* are not among them.                                                      *)

Get(doc, name) == IF name \in DOMAIN doc THEN doc[name] ELSE Undefined

Set(doc, name, v) == [n \in DOMAIN doc \cup {name} |-> IF n = name THEN v ELSE doc[n]]

hasOwnProperty(o, f) == f \in DOMAIN o

SetField(o, f, v) == [n \in DOMAIN o \cup {f} |-> IF n = f THEN v ELSE o[n]]

\* a slip that stores nothing
MapSetNothing(kv, key, v) == kv

\* obj[key] = v on a keyed container: replaces in place, or appends a new key
MapSet(kv, key, v) ==
  IF \E i \in 1..Len(kv) : kv[i].k = key
  THEN [i \in 1..Len(kv) |-> IF kv[i].k = key THEN [k |-> key, v |-> v] ELSE kv[i]]
  ELSE Append(kv, [k |-> key, v |-> v])

\* delete obj[key]
MapDelete(kv, key) == SelectSeq(kv, LAMBDA e : e.k # key)

\* Array.prototype.indexOf (strict equality, so objects by identity): 0-based, -1 if absent
indexOf(el, v) ==
  IF \E i \in 1..Len(el) : el[i] = v
  THEN (CHOOSE i \in 1..Len(el) : el[i] = v /\ \A j \in 1..(i - 1) : el[j] # v) - 1
  ELSE -1

\* Array.prototype.splice(idx, 1)
splice1(el, idx) == SubSeq(el, 1, idx) \o SubSeq(el, idx + 2, Len(el))

\* the entries of a container value, in storage order
entriesOf(c) ==
  CASE c.t = "map" -> [i \in 1..Len(c.kv) |-> c.kv[i].v]
    [] c.t = "array" -> c.el
    [] OTHER -> <<>>

withEntries(c, es) ==
  CASE c.t = "map" -> JMap([i \in 1..Len(c.kv) |-> [k |-> c.kv[i].k, v |-> es[i]]])
    [] c.t = "array" -> JArr(es)
    [] OTHER -> c

\* JSON.parse gives every object of the text an identity of its own
RECURSIVE allocEntries(_, _)
allocEntries(es, heap) ==
  IF es = <<>> THEN [es |-> <<>>, heap |-> heap]
  ELSE LET e == Head(es)
           h1 == IF e.t = "object" THEN Append(heap, e.f) ELSE heap
           e1 == IF e.t = "object" THEN Ref(Len(h1)) ELSE e
           rest == allocEntries(Tail(es), h1)
       IN [es |-> <<e1>> \o rest.es, heap |-> rest.heap]

parse(doc) ==
  LET a == allocEntries(entriesOf(Get(doc, "mcpServers")), <<>>)
      d == allocEntries(entriesOf(Get(doc, "mcpServersDisabled")), a.heap)
  IN [doc |-> [n \in DOMAIN doc |->
                 IF n = "mcpServers" THEN withEntries(doc[n], a.es)
                 ELSE IF n = "mcpServersDisabled" THEN withEntries(doc[n], d.es)
                 ELSE doc[n]],
      heap |-> d.heap]

\* the document as a value again: what JSON.stringify(cfg) would write
stringify(mem) ==
  LET val(e) == IF e.t = "ref" THEN JObj(mem.heap[e.r]) ELSE e
      cont(c) == withEntries(c, [i \in 1..Len(entriesOf(c)) |-> val(entriesOf(c)[i])])
  IN [n \in DOMAIN mem.doc |->
        IF n \in {"mcpServers", "mcpServersDisabled"} THEN cont(mem.doc[n]) ELSE mem.doc[n]]

----------------------------------------------------------------------------
(* schema.js *)

\* it && Object.prototype.hasOwnProperty.call(it, 'enabled')
declaresEnabled(heap, it) == Truthy(it) /\ hasOwnProperty(heap[it.r], "enabled")

\* a slip that takes a missing mcpServers for a sequence
detectSchemaArrayDefault(mem) ==
  LET ms == Get(mem.doc, "mcpServers")
      es == entriesOf(ms)
      hasEnabled == \E i \in 1..Len(es) : declaresEnabled(mem.heap, es[i])
  IN IF ~Truthy(ms) THEN [throw |-> FALSE, shape |-> "array", hasEnabled |-> FALSE]
     ELSE IF IsArray(ms) THEN [throw |-> FALSE, shape |-> "array", hasEnabled |-> hasEnabled]
     ELSE IF TypeofObject(ms) THEN [throw |-> FALSE, shape |-> "object", hasEnabled |-> hasEnabled]
     ELSE [throw |-> TRUE, error |-> "Unsupported mcpServers schema"]

detectSchema(mem) ==
  LET ms == Get(mem.doc, "mcpServers")
      es == entriesOf(ms)
      hasEnabled == \E i \in 1..Len(es) : declaresEnabled(mem.heap, es[i])
  IN IF ~Truthy(ms) THEN [throw |-> FALSE, shape |-> "object", hasEnabled |-> FALSE]
     ELSE IF IsArray(ms) THEN [throw |-> FALSE, shape |-> "array", hasEnabled |-> hasEnabled]
     ELSE IF TypeofObject(ms) THEN [throw |-> FALSE, shape |-> "object", hasEnabled |-> hasEnabled]
     ELSE [throw |-> TRUE, error |-> "Unsupported mcpServers schema"]

\* a slip that derives the status from the container alone
packItemByContainer(heap, def, container, shape, key, index) ==
  LET o == heap[def.r]
      id == safeStr(IF hasOwnProperty(o, "id") THEN o.id ELSE Undefined)
      name == safeStr(IF hasOwnProperty(o, "name") THEN o.name ELSE Undefined)
  IN [key |-> key,
      id |-> IF id # <<>> THEN JStr(id) ELSE Undefined,
      name |-> IF name # <<>> THEN JStr(name) ELSE Undefined,
      def |-> def,
      container |-> container,
      status |-> IF container = "disabled" THEN "disabled" ELSE "enabled",
      shape |-> shape,
      index |-> index]

packItem(heap, def, container, shape, key, index) ==
  LET o == heap[def.r]
      id == safeStr(IF hasOwnProperty(o, "id") THEN o.id ELSE Undefined)
      name == safeStr(IF hasOwnProperty(o, "name") THEN o.name ELSE Undefined)
      enabledProp == IF hasOwnProperty(o, "enabled") THEN JBool(Truthy(o.enabled)) ELSE Undefined
      status == IF container = "disabled" THEN "disabled"
                ELSE IF enabledProp = JBool(FALSE) THEN "disabled"
                ELSE "enabled"
  IN [key |-> key,
      id |-> IF id # <<>> THEN JStr(id) ELSE Undefined,
      name |-> IF name # <<>> THEN JStr(name) ELSE Undefined,
      def |-> def,
      container |-> container,
      status |-> status,
      shape |-> shape,
      index |-> index]

\* a slip that passes over an entry that is null
RECURSIVE enumLoopSkipNull(_, _, _, _, _)
enumLoopSkipNull(c, i, container, shape, acc) ==
  IF i > Len(entriesOf(c)) THEN acc
  ELSE LET e == entriesOf(c)[i]
           it == packItem(acc.heap, e, container, shape,
                          IF shape = "object" THEN JStr(c.kv[i].k) ELSE Undefined,
                          IF shape = "array" THEN JNum(i - 1) ELSE Undefined)
       IN enumLoopSkipNull(c, i + 1, container, shape,
                           IF Truthy(e) THEN [list |-> Append(acc.list, it), heap |-> acc.heap]
                           ELSE acc)

\* one loop of enumerateServers over container c from position i on; `ms[i] || {}`
\* makes a fresh object for an entry that is null
RECURSIVE enumLoop(_, _, _, _, _)
enumLoop(c, i, container, shape, acc) ==
  IF i > Len(entriesOf(c)) THEN acc
  ELSE LET e == entriesOf(c)[i]
           heap1 == IF Truthy(e) THEN acc.heap ELSE Append(acc.heap, EmptyObj)
           def == IF Truthy(e) THEN e ELSE Ref(Len(heap1))
           it == packItem(heap1, def, container, shape,
                          IF shape = "object" THEN JStr(c.kv[i].k) ELSE Undefined,
                          IF shape = "array" THEN JNum(i - 1) ELSE Undefined)
       IN enumLoop(c, i + 1, container, shape,
                   [list |-> Append(acc.list, it), heap |-> heap1])

\* returns the item list and the heap (the fresh objects of null entries added)
enumerateServers(mem) ==
  LET ms == Get(mem.doc, "mcpServers")
      md == Get(mem.doc, "mcpServersDisabled")
      start == [list |-> <<>>, heap |-> mem.heap]
  IN IF IsArray(ms)
     THEN LET a == enumLoop(ms, 1, "active", "array", start)
          IN IF IsArray(md) THEN enumLoop(md, 1, "disabled", "array", a) ELSE a
     ELSE LET activeObj == IF Truthy(ms) /\ TypeofObject(ms) THEN ms ELSE JMap(<<>>)
              disabledObj == IF Truthy(md) /\ TypeofObject(md) /\ ~IsArray(md) THEN md ELSE JMap(<<>>)
              a == enumLoop(activeObj, 1, "active", "object", start)
          IN enumLoop(disabledObj, 1, "disabled", "object", a)

\* a slip that builds the document anew from its two containers
ensureContainersAnew(doc, shape) ==
  [n \in {"mcpServers", "mcpServersDisabled"} |->
     IF shape = "object"
     THEN IF isMapValue(Get(doc, n)) THEN doc[n] ELSE JMap(<<>>)
     ELSE IF IsArray(Get(doc, n)) THEN doc[n] ELSE JArr(<<>>)]

\* a slip that empties a container that already has the shape
ensureContainersReset(doc, shape) ==
  LET empty == IF shape = "object" THEN JMap(<<>>) ELSE JArr(<<>>)
  IN Set(Set(doc, "mcpServers", empty), "mcpServersDisabled", empty)

ensureContainers(doc, shape) ==
  LET ms == Get(doc, "mcpServers")
      md == Get(doc, "mcpServersDisabled")
  IN IF shape = "object"
     THEN LET d1 == IF ~Truthy(ms) \/ ~TypeofObject(ms) \/ IsArray(ms)
                    THEN Set(doc, "mcpServers", JMap(<<>>)) ELSE doc
          IN IF ~Truthy(md) \/ ~TypeofObject(md) \/ IsArray(md)
             THEN Set(d1, "mcpServersDisabled", JMap(<<>>)) ELSE d1
     ELSE LET d1 == IF ~IsArray(ms) THEN Set(doc, "mcpServers", JArr(<<>>)) ELSE doc
          IN IF ~IsArray(md) THEN Set(d1, "mcpServersDisabled", JArr(<<>>)) ELSE d1

\* a slip that reads the flag's value where its presence is meant
ownEnabledTruthy(heap, def) ==
  hasOwnProperty(heap[def.r], "enabled") /\ heap[def.r].enabled = JBool(TRUE)

\* Object.prototype.hasOwnProperty.call(item.def, 'enabled')
ownEnabled(heap, def) == hasOwnProperty(heap[def.r], "enabled")

\* item.def.enabled = b
setEnabled(heap, def, b) == [heap EXCEPT ![def.r] = SetField(@, "enabled", JBool(b))]

\* hasOwnProperty(item.def, 'enabled') && item.def.enabled === false
enabledIsFalse(heap, def) ==
  ownEnabled(heap, def) /\ heap[def.r].enabled = JBool(FALSE)

\* item.key || item.id || item.name
labelOf(item) ==
  IF Truthy(item.key) THEN item.key ELSE IF Truthy(item.id) THEN item.id ELSE item.name

\* a change description: the fixed text and the value interpolated into it
Change(text, arg) == [text |-> text, arg |-> arg]

\* a slip that leaves `enabled` as it is
enableFlagNothing(heap, item, changes) == [heap |-> heap, changes |-> changes]

\* the shared tail of both branches of performEnable
enableFlag(heap, item, changes) ==
  IF enabledIsFalse(heap, item.def)
  THEN [heap |-> setEnabled(heap, item.def, TRUE),
        changes |-> Append(changes, Change("set enabled=true", Undefined))]
  ELSE [heap |-> heap, changes |-> changes]

performEnable(mem, item, schema) ==
  IF schema.shape = "object"
  THEN LET d1 == ensureContainers(mem.doc, "object")
           key == item.key.s
           d2 == Set(d1, "mcpServers", JMap(MapSet(d1["mcpServers"].kv, key, item.def)))
           d3 == Set(d2, "mcpServersDisabled", JMap(MapDelete(d2["mcpServersDisabled"].kv, key)))
           moved == item.container = "disabled"
           ch == IF moved
                 THEN <<Change("moved from mcpServersDisabled to mcpServers", item.key)>>
                 ELSE <<Change("kept in mcpServers", labelOf(item))>>
           fl == enableFlag(mem.heap, item, ch)
       IN [throw |-> FALSE, changes |-> fl.changes,
           mem |-> [doc |-> IF moved THEN d3 ELSE d1, heap |-> fl.heap]]
  ELSE LET d1 == ensureContainers(mem.doc, "array")
           idx == indexOf(d1["mcpServersDisabled"].el, item.def)
           d2 == Set(d1, "mcpServers", JArr(Append(d1["mcpServers"].el, item.def)))
           d3 == Set(d2, "mcpServersDisabled", JArr(splice1(d2["mcpServersDisabled"].el, idx)))
           moved == item.container = "disabled" /\ idx >= 0
           ch == IF item.container = "disabled"
                 THEN IF idx >= 0
                      THEN <<Change("moved entry from mcpServersDisabled[] to mcpServers[]", Undefined)>>
                      ELSE <<>>
                 ELSE <<Change("kept entry in mcpServers[]", Undefined)>>
           fl == enableFlag(mem.heap, item, ch)
       IN [throw |-> FALSE, changes |-> fl.changes,
           mem |-> [doc |-> IF moved THEN d3 ELSE d1, heap |-> fl.heap]]

\* a slip that sets the flag without looking at it
disableFlagAlways(heap, item) ==
  [heap |-> setEnabled(heap, item.def, FALSE),
   changes |-> <<Change("set enabled=false", Undefined)>>]

\* the flag branch of performDisable: `enabled !== false` sets it, else reports
disableFlag(heap, item) ==
  IF heap[item.def.r].enabled # JBool(FALSE)
  THEN [heap |-> setEnabled(heap, item.def, FALSE),
        changes |-> <<Change("set enabled=false", Undefined)>>]
  ELSE [heap |-> heap, changes |-> <<Change("already enabled=false", Undefined)>>]

performDisable(mem, item, schema) ==
  IF schema.shape = "object"
  THEN LET d1 == ensureContainers(mem.doc, "object")
           key == item.key.s
           d2 == Set(d1, "mcpServersDisabled",
                     JMap(MapSet(d1["mcpServersDisabled"].kv, key, item.def)))
           d3 == Set(d2, "mcpServers", JMap(MapDelete(d2["mcpServers"].kv, key)))
       IN IF ownEnabled(mem.heap, item.def)
          THEN LET fl == disableFlag(mem.heap, item)
               IN [throw |-> FALSE, changes |-> fl.changes,
                   mem |-> [doc |-> d1, heap |-> fl.heap]]
          ELSE IF item.container = "active"
          THEN [throw |-> FALSE,
                changes |-> <<Change("moved from mcpServers to mcpServersDisabled", item.key)>>,
                mem |-> [doc |-> d3, heap |-> mem.heap]]
          ELSE [throw |-> FALSE,
                changes |-> <<Change("already in mcpServersDisabled under key", item.key)>>,
                mem |-> [doc |-> d1, heap |-> mem.heap]]
  ELSE LET d1 == ensureContainers(mem.doc, "array")
       IN IF ~ownEnabled(mem.heap, item.def)
          THEN [throw |-> TRUE, changes |-> <<>>,
                mem |-> [doc |-> d1, heap |-> mem.heap]]
          ELSE LET fl == disableFlag(mem.heap, item)
               IN [throw |-> FALSE, changes |-> fl.changes,
                   mem |-> [doc |-> d1, heap |-> fl.heap]]

----------------------------------------------------------------------------
(* Bounded inputs *)

\* entries an initial document holds, both containers together
MaxEntries == 2

Keys == {<<"x">>, <<"y">>}
Ids == {<<"a">>, <<"b">>}
Idents == {<<"a">>, <<"B">>, <<"x">>, <<"Y">>}

SeqsUpTo(S, n) == UNION {[1..k -> S] : k \in 0..n}

\* an entry object from optional fields, each given as a set of at most one value
Entry(ids, names, flags) ==
  JObj([f \in (IF ids = {} THEN {} ELSE {"id"}) \cup (IF names = {} THEN {} ELSE {"name"})
               \cup (IF flags = {} THEN {} ELSE {"enabled"}) |->
          CASE f = "id" -> JStr(CHOOSE v \in ids : TRUE)
            [] f = "name" -> JStr(CHOOSE v \in names : TRUE)
            [] OTHER -> JBool(CHOOSE v \in flags : TRUE)])

Opt(S) == {{}} \cup {{v} : v \in S}

Entries == {JNull} \cup {Entry(i, {}, e) : i \in Opt(Ids), e \in Opt(BOOLEAN)}

MapsUpTo(K, E, n) ==
  {JMap(kv) : kv \in {s \in SeqsUpTo([k : K, v : E], n) :
                        \A i, j \in 1..Len(s) : i # j => s[i].k # s[j].k}}

ArraysUpTo(E, n) == {JArr(el) : el \in SeqsUpTo(E, n)}

\* a top-level field the tool knows nothing about
Theme == JStr(<<"d", "a", "r", "k">>)

MakeDoc(ms, md) ==
  [n \in {"theme"} \cup (IF ms = Undefined THEN {} ELSE {"mcpServers"})
           \cup (IF md = Undefined THEN {} ELSE {"mcpServersDisabled"}) |->
     CASE n = "theme" -> Theme
       [] n = "mcpServers" -> ms
       [] OTHER -> md]

\* mcpServers and mcpServersDisabled: each absent, a mapping, a sequence or a scalar
ContainersUpTo(n) ==
  {Undefined, JStr(<<"s">>)} \cup MapsUpTo(Keys, Entries, n) \cup ArraysUpTo(Entries, n)

InitDocs ==
  UNION {{MakeDoc(ms, md) : ms \in {c \in ContainersUpTo(k) : Len(entriesOf(c)) = k},
                            md \in ContainersUpTo(MaxEntries - k)} : k \in 0..MaxEntries}

----------------------------------------------------------------------------
(* Files.  A file's content is the document it spells, the indentation it   *)
(* is written with, whether it ends in a newline, and whether it spells the *)
(* document to its end: a file that is being written holds a prefix of its  *)
(* text, which may stop inside the document.  Paths                         *)
(* are sequences of name parts; all files are in one directory.             *)

EX_OK == 0
EX_NO_MATCH == 2
EX_AMBIG == 3
EX_IO == 4
EX_JSON == 5

Text(data, indent, eol) == [data |-> data, indent |-> indent, eol |-> eol, complete |-> TRUE]

\* raw = JSON.stringify(data, null, 2) + '\n'
raw(data) == Text(data, 2, TRUE)

\* a prefix of text that stops inside the document, the empty prefix included
partial(text) == [text EXCEPT !.eol = FALSE, !.complete = FALSE]

\* what a file may hold while fs.writeFileSync(path, text) is at work on it:
\* a prefix that stops inside the document or, for a text that ends in a
\* newline, all of it but the newline
prefixes(text) ==
  {partial(text)} \cup (IF text.eol THEN {[text EXCEPT !.eol = FALSE]} ELSE {})

\* what a file that is no JSON spells
NotJson == [invalid |-> TRUE]

\* a file that exists and can be read but does not parse: '{ invalid json }'
Garbage == Text(NotJson, 0, FALSE)

\* JSON.parse(raw): the value, or a SyntaxError thrown.  A text that stops
\* inside the document throws; the final newline is white space, and a text
\* that lacks nothing else parses.
JSONparse(text) ==
  IF text.complete /\ text.data # NotJson
  THEN [throw |-> FALSE, value |-> text.data]
  ELSE [throw |-> TRUE]

\* readJson of lib/config.js: its catch passes on an error that is wrapped already
configReadJson(files, p) ==
  IF p \notin DOMAIN files
  THEN [throw |-> TRUE, codeEx |-> EX_IO, message |-> "Config not found"]
  ELSE IF JSONparse(files[p]).throw
  THEN [throw |-> TRUE, codeEx |-> EX_JSON, message |-> "Invalid JSON"]
  ELSE JSONparse(files[p])

\* readJson of ccmcp.js: the jsonErr thrown inside the outer try is caught by
\* its catch, has no `code`, and is thrown again as ioErr
readJson(files, p) ==
  IF p \notin DOMAIN files
  THEN [throw |-> TRUE, codeEx |-> EX_IO, message |-> "Config not found"]
  ELSE IF JSONparse(files[p]).throw
  THEN [throw |-> TRUE, codeEx |-> EX_IO, message |-> "Unable to read file"]
  ELSE JSONparse(files[p])

cfgPath == <<"settings.json">>

\* `${base}.bak.${nowStamp()}`.  The stamps of the backups in a directory are
\* numbered in their order: n is the n-th of them.
bakPath(p, n) == p \o <<".bak.", n>>

\* q names a backup of p
isBackup(q, p) == Len(q) = Len(p) + 2 /\ SubSeq(q, 1, Len(p) + 1) = p \o <<".bak.">>

\* the stamps of the backups of p that the directory holds
stampsOf(files, p) == {q[Len(q)] : q \in {f \in DOMAIN files : isBackup(f, p)}}

\* nowStamp(): the local time, to the second, seen among the stamps of the
\* backups the directory holds.  It is the stamp of one of them, the at-th
\* (fresh = FALSE), or a stamp none of them has, which takes place at among
\* them (fresh = TRUE).  The local clock is not bound to the backups made
\* before: it reads earlier than one of them after the clock was set back or
\* the time zone changed.
nowStamp(files, p) ==
  LET n == Cardinality(stampsOf(files, p))
  IN {[at |-> k, fresh |-> FALSE] : k \in 1..n}
       \cup {[at |-> k, fresh |-> TRUE] : k \in 1..(n + 1)}

\* the directory with the stamps numbered anew for a backup with stamp to come:
\* a fresh stamp moves the later ones up by one place
renumbered(files, p, stamp) ==
  IF ~stamp.fresh THEN files
  ELSE LET later == {q \in DOMAIN files : isBackup(q, p) /\ q[Len(q)] >= stamp.at}
       IN [q \in (DOMAIN files \ later) \cup {bakPath(p, f[Len(f)] + 1) : f \in later} |->
             IF isBackup(q, p) /\ q[Len(q)] > stamp.at
             THEN files[bakPath(p, q[Len(q)] - 1)]
             ELSE files[q]]

\* a slip that writes the target itself
tmpPathIsTarget(p) == p

\* `.${basename}.tmp-${pid}-${Date.now()}` in the directory of p
tmpPath(p) == <<".">> \o p \o <<".tmp-", "pid", "now">>

put(files, p, content) ==
  [q \in DOMAIN files \cup {p} |-> IF q = p THEN content ELSE files[q]]

Logged(d, op, from, to) == Append(d.log, [op |-> op, from |-> from, to |-> to])

\* a slip that makes no copy
copyFileNothing(d, src, dest) == d

copyFileSync(d, src, dest) ==
  [files |-> put(d.files, dest, d.files[src]), log |-> Logged(d, "copyFile", src, dest)]

\* fs.writeFileSync(path, text) once it has created or truncated the file and
\* written part of the text
writeFileOpen(d, path, part) ==
  [files |-> put(d.files, path, part), log |-> Logged(d, "writeFile", <<>>, path)]

\* fs.writeFileSync(path, text) once it has written all of the text
writeFileSync(d, path, text) == [files |-> put(d.files, path, text), log |-> d.log]

renameSync(d, old, new) ==
  [files |-> [q \in (DOMAIN d.files \ {old}) \cup {new} |->
                IF q = new THEN d.files[old] ELSE d.files[q]],
   log |-> Logged(d, "rename", old, new)]

backupFile(d, p, stamp) ==
  copyFileSync([d EXCEPT !.files = renumbered(d.files, p, stamp)], p, bakPath(p, stamp.at))

\* a slip that answers every failed resolution with the no-match code
exitCodeNoMatchForAll(outcome) ==
  CASE outcome = "ok" -> EX_OK
    [] outcome = "nomatch" -> EX_NO_MATCH
    [] outcome = "ambiguous" -> EX_NO_MATCH
    [] outcome = "unsupported schema" -> EX_JSON
    [] outcome = "unsupported transition" -> EX_JSON

\* the code the process exits with: the action's return value, or the codeEx of
\* the error thrown (jsonErr by detectSchema and by performDisable)
exitCode(outcome) ==
  CASE outcome = "ok" -> EX_OK
    [] outcome = "nomatch" -> EX_NO_MATCH
    [] outcome = "ambiguous" -> EX_AMBIG
    [] outcome = "unsupported schema" -> EX_JSON
    [] outcome = "unsupported transition" -> EX_JSON

\* a slip that writes out on a dry run too
nextStepAlwaysWrites(outcome, dryRun) == IF outcome # "ok" THEN "exit" ELSE "backupFile"

\* where actionEnable / actionDisable go after the in-memory part
nextStep(outcome, dryRun) ==
  IF outcome # "ok" THEN "exit" ELSE IF dryRun THEN "exit" ELSE "backupFile"

\* writeJsonAtomic(p, data): the text is written to a temporary file, which is
\* then renamed over p
writeJsonAtomic(d, p, data) ==
  renameSync(writeFileSync(writeFileOpen(d, tmpPath(p), partial(raw(data))),
                           tmpPath(p), raw(data)),
             tmpPath(p), p)

\* the end of actionEnable / actionDisable, from `if (args.dryRun)` on: nothing
\* on a dry run or after a failure, else backupFile and writeJsonAtomic; with no
\* file at p, fs.copyFileSync throws ENOENT.  log takes the file operations of
\* this call.
writeOut(files, p, outcome, dryRun, data, stamp) ==
  LET d == [files |-> files, log |-> <<>>]
  IN IF nextStep(outcome, dryRun) # "backupFile" THEN [disk |-> d, outcome |-> outcome]
     ELSE IF p \notin DOMAIN files THEN [disk |-> d, outcome |-> "ENOENT"]
     ELSE [disk |-> writeJsonAtomic(backupFile(d, p, stamp), p, data), outcome |-> outcome]

\* the directory when the document was read from the configuration file
OnDisk(doc) == [files |-> [q \in {cfgPath} |-> raw(doc)], log |-> <<>>]

----------------------------------------------------------------------------
(* The state machine: cfg is the document in memory, held by value; last    *)
(* records the latest call: the document before it, what the resolver       *)
(* answered and how the call ended; first records the call before it where  *)
(* a pair of calls is followed.  disk is the directory of the configuration *)
(* file with the file operations made on it, and pc the position of the     *)
(* command line program, where an invocation is followed step by step.      *)

\* an empty directory, where the calls followed make no file operation
NoDisk == [files |-> <<>>, log |-> <<>>]

NoCall ==
  [op |-> "none", ident |-> <<>>, dryRun |-> FALSE, before |-> <<>>, m |-> <<>>,
   outcome |-> "none", changes |-> <<>>, log |-> <<>>]

\* actionEnable / actionDisable up to the write: enumerate, resolve, detect, perform
run(op, doc, ident) ==
  LET mem0 == parse(doc)
      en == enumerateServers(mem0)
      mem1 == [doc |-> mem0.doc, heap |-> en.heap]
      m == matchIdentifier(en.list, ident)
      schema == detectSchema(mem1)
      r == IF op = "enable" THEN performEnable(mem1, m.item, schema)
           ELSE performDisable(mem1, m.item, schema)
  IN IF ~m.ok
     THEN [m |-> m, outcome |-> IF m.ambiguous THEN "ambiguous" ELSE "nomatch",
           changes |-> <<>>, after |-> doc]
     ELSE IF schema.throw
     THEN [m |-> m, outcome |-> "unsupported schema", changes |-> <<>>, after |-> doc]
     ELSE [m |-> m, outcome |-> IF r.throw THEN "unsupported transition" ELSE "ok",
           changes |-> r.changes, after |-> stringify(r.mem)]

\* the record of a call: w is how its write-out ended
Called(op, ident, dryRun, doc, r, w) ==
  [op |-> op, ident |-> ident, dryRun |-> dryRun, before |-> doc, m |-> r.m,
   outcome |-> w.outcome, changes |-> r.changes, log |-> w.disk.log]

\* actionEnable(cfg, ident, {dryRun}, cfgPath)
Enable(ident, dryRun) ==
  /\ \E r \in {run("enable", cfg, ident)} :
       \E w \in {writeOut(disk.files, cfgPath, r.outcome, dryRun, r.after, stamp) :
                  stamp \in nowStamp(disk.files, cfgPath)} :
         /\ cfg' = r.after
         /\ last' = Called("enable", ident, dryRun, cfg, r, w)
         /\ disk' = w.disk
  /\ UNCHANGED <<first, pc>>

\* actionDisable(cfg, ident, {dryRun}, cfgPath)
Disable(ident, dryRun) ==
  /\ \E r \in {run("disable", cfg, ident)} :
       \E w \in {writeOut(disk.files, cfgPath, r.outcome, dryRun, r.after, stamp) :
                  stamp \in nowStamp(disk.files, cfgPath)} :
         /\ cfg' = r.after
         /\ last' = Called("disable", ident, dryRun, cfg, r, w)
         /\ disk' = w.disk
  /\ UNCHANGED <<first, pc>>

\* the document was read from the configuration file
Init ==
  /\ cfg \in InitDocs
  /\ last = NoCall
  /\ first = NoCall
  /\ disk = OnDisk(cfg)
  /\ pc = "idle"

\* one call on each document
Next ==
  /\ last.op = "none"
  /\ \E ident \in Idents : \E dryRun \in BOOLEAN :
       Enable(ident, dryRun) \/ Disable(ident, dryRun)

Spec == Init /\ [][Next]_vars

-----------------------------------------------------------------------------
(* Pairs of calls on one identifier: a first call of either kind, then the  *)
(* opposite call with the same arguments, the document enumerated and       *)
(* resolved afresh by each.                                                 *)

FirstCall(op, ident, dryRun) ==
  /\ last.op = "none"
  /\ \E r \in {run(op, cfg, ident)} :
       \E w \in {writeOut(disk.files, cfgPath, r.outcome, dryRun, r.after, stamp) :
                  stamp \in nowStamp(disk.files, cfgPath)} :
         /\ cfg' = r.after
         /\ last' = Called(op, ident, dryRun, cfg, r, w)
         /\ disk' = w.disk
  /\ UNCHANGED <<first, pc>>

SecondCall ==
  /\ last.op \in {"enable", "disable"}
  /\ first.op = "none"
  /\ \E op \in {IF last.op = "enable" THEN "disable" ELSE "enable"} :
       \E r \in {run(op, cfg, last.ident)} :
         \E w \in {writeOut(disk.files, cfgPath, r.outcome, last.dryRun, r.after, stamp) :
                  stamp \in nowStamp(disk.files, cfgPath)} :
           /\ cfg' = r.after
           /\ last' = Called(op, last.ident, last.dryRun, cfg, r, w)
           /\ disk' = w.disk
  /\ first' = last
  /\ UNCHANGED pc

NextPair ==
  \/ \E ident \in Idents : \E dryRun \in BOOLEAN :
       FirstCall("enable", ident, dryRun) \/ FirstCall("disable", ident, dryRun)
  \/ SecondCall

SpecPair == Init /\ [][NextPair]_vars

----------------------------------------------------------------------------
(* Reading documents held by value, for the properties below *)

\* the latest call resolved an item
Resolved == last.op \in {"enable", "disable"} /\ last.m.ok

Target == last.m.item

FieldOf(container) == IF container = "active" THEN "mcpServers" ELSE "mcpServersDisabled"

OtherField(container) == IF container = "active" THEN "mcpServersDisabled" ELSE "mcpServers"

isMap(doc, field) == Get(doc, field).t = "map"

isArr(doc, field) == Get(doc, field).t = "array"

\* the keys a container holds; none when it is absent or no mapping
keysOf(doc, field) ==
  IF isMap(doc, field) THEN {Get(doc, field).kv[i].k : i \in 1..Len(Get(doc, field).kv)} ELSE {}

\* the value a mapping holds under key
valueAt(doc, field, key) ==
  LET kv == Get(doc, field).kv
  IN kv[CHOOSE i \in 1..Len(kv) : kv[i].k = key].v

\* the elements of a sequence container; none when it is absent or no sequence
elemsOf(doc, field) == IF isArr(doc, field) THEN Get(doc, field).el ELSE <<>>

\* the entry the item resolved by a call stands for, as the document before that call held it
EntryOf(call) ==
  IF call.m.item.shape = "object"
  THEN valueAt(call.before, FieldOf(call.m.item.container), call.m.item.key.s)
  ELSE elemsOf(call.before, FieldOf(call.m.item.container))[call.m.item.index.n + 1]

TargetEntry == EntryOf(last)

\* the same place in the document after the call, Undefined when nothing is there
TargetPlaceNow ==
  IF Target.shape = "object"
  THEN IF Target.key.s \in keysOf(cfg, FieldOf(Target.container))
       THEN valueAt(cfg, FieldOf(Target.container), Target.key.s)
       ELSE Undefined
  ELSE IF Target.index.n + 1 <= Len(elemsOf(cfg, FieldOf(Target.container)))
       THEN elemsOf(cfg, FieldOf(Target.container))[Target.index.n + 1]
       ELSE Undefined

\* the entry declares its own `enabled`
HasMarker(e) == e.t = "object" /\ "enabled" \in DOMAIN e.f

WithEnabled(e, b) == JObj([n \in DOMAIN e.f |-> IF n = "enabled" THEN JBool(b) ELSE e.f[n]])

SameDocument(a, b) == DOMAIN a = DOMAIN b /\ \A n \in DOMAIN a : a[n] = b[n]

Keyed(doc) == Get(doc, "mcpServers").t \in {"undefined", "map"}

Indexed(doc) == isArr(doc, "mcpServers")

\* the latest call reported that it moved the entry to the other container
Moved ==
  \E i \in 1..Len(last.changes) :
    last.changes[i].text \in {"moved from mcpServers to mcpServersDisabled",
                              "moved from mcpServersDisabled to mcpServers",
                              "moved entry from mcpServersDisabled[] to mcpServers[]"}

----------------------------------------------------------------------------
(* Properties of the transition engine *)

\* C1 (as claimed): a disable of an entry without its own `enabled`, in a document
\* whose mcpServers is an array, raises the unsupported-transition error and
\* leaves the document in memory equal to the document before the call.
C1_IndexedDisableLeavesDocument ==
  (last.op = "disable" /\ Resolved /\ Indexed(last.before) /\ ~HasMarker(TargetEntry))
    => (last.outcome = "unsupported transition" /\ SameDocument(cfg, last.before))

\* C2: a disable of an entry that declares its own `enabled`, in a Keyed or an
\* Indexed document, sets the flag to false (reporting 'already enabled=false'
\* when it was false) and leaves the entry where it was: same container, same
\* key or position, and nothing arrives in the other container.
C2_MarkerDisableStaysInPlace ==
  (/\ last.op = "disable" /\ Resolved
   /\ (Keyed(last.before) \/ Indexed(last.before))
   /\ HasMarker(TargetEntry))
    => /\ last.outcome = "ok"
       /\ TargetPlaceNow = WithEnabled(TargetEntry, FALSE)
       /\ last.changes =
            <<Change(IF TargetEntry.f.enabled = JBool(FALSE)
                     THEN "already enabled=false" ELSE "set enabled=false", Undefined)>>
       /\ ~Moved
       /\ keysOf(cfg, FieldOf(Target.container)) = keysOf(last.before, FieldOf(Target.container))
       /\ Len(elemsOf(cfg, FieldOf(Target.container)))
            = Len(elemsOf(last.before, FieldOf(Target.container)))
       /\ keysOf(cfg, OtherField(Target.container))
            \subseteq keysOf(last.before, OtherField(Target.container))
       /\ Len(elemsOf(cfg, OtherField(Target.container)))
            <= Len(elemsOf(last.before, OtherField(Target.container)))

C2_Witness ==
  /\ last.op = "disable" /\ Resolved /\ Keyed(last.before)
  /\ Target.container = "disabled"
  /\ HasMarker(TargetEntry) /\ TargetEntry.f.enabled = JBool(TRUE)
  /\ valueAt(cfg, "mcpServersDisabled", Target.key.s).f.enabled = JBool(FALSE)

\* C3 (as claimed): a disable of an entry of the active container of a Keyed
\* document, the entry without its own `enabled`, leaves no entry under its key
\* in the active container and the original entry value under the same key in
\* the disabled container.
C3_NoMarkerDisableRelocates ==
  (/\ last.op = "disable" /\ Resolved /\ Keyed(last.before)
   /\ Target.container = "active" /\ ~HasMarker(TargetEntry))
    => /\ Target.key.s \notin keysOf(cfg, "mcpServers")
       /\ Target.key.s \in keysOf(cfg, "mcpServersDisabled")
       /\ valueAt(cfg, "mcpServersDisabled", Target.key.s) = TargetEntry

\* C5 (as claimed): when a call moves a Keyed entry to the other container,
\* every other entry of both containers is still there with its value,
\* an entry under the same key in the destination container included.
C5_RelocationKeepsOtherEntries ==
  (/\ Resolved /\ Moved
   /\ isMap(last.before, "mcpServers") /\ isMap(last.before, "mcpServersDisabled"))
    => \A field \in {"mcpServers", "mcpServersDisabled"} :
         \A k \in keysOf(last.before, field) :
           (field # FieldOf(Target.container) \/ k # Target.key.s)
             => /\ k \in keysOf(cfg, field)
                /\ valueAt(cfg, field, k) = valueAt(last.before, field, k)

\* C6: a call of enable or disable, successful or failing, leaves every top-level
\* field other than mcpServers and mcpServersDisabled with its value, and adds or
\* removes no such field.
C6_OtherFieldsPreserved ==
  last.op \in {"enable", "disable"}
    => LET others(d) == DOMAIN d \ {"mcpServers", "mcpServersDisabled"}
       IN /\ others(cfg) = others(last.before)
          /\ \A n \in others(cfg) : cfg[n] = last.before[n]

C6_Witness ==
  /\ last.op \in {"enable", "disable"} /\ last.outcome = "ok" /\ Moved
  /\ "mcpServersDisabled" \notin DOMAIN last.before
  /\ "theme" \in DOMAIN cfg /\ cfg["theme"] = Theme

\* C7 (as claimed): for an entry that declares its own `enabled`, enable sets the
\* flag to true and disable sets it to false, and neither moves the entry to the
\* other container, also when the entry sits in the disabled container.
C7_MarkerNeverRelocates ==
  (Resolved /\ last.outcome = "ok" /\ HasMarker(TargetEntry))
    => /\ TargetPlaceNow = WithEnabled(TargetEntry, last.op = "enable")
       /\ ~Moved

----------------------------------------------------------------------------
(* Properties of pairs of calls (SpecPair) *)

\* the entries a container holds: key and value for a mapping, the elements for a sequence
membersOf(doc, field) ==
  IF isMap(doc, field) THEN Range(Get(doc, field).kv)
  ELSE IF isArr(doc, field) THEN Range(Get(doc, field).el)
  ELSE {}

\* the first call of the pair is one that relocates: a disable of an entry of the
\* active container or an enable of an entry of the disabled container, the entry
\* without `enabled`, in a Keyed document whose disabled container is no sequence
RelocatingPair ==
  /\ first.op # "none" /\ first.m.ok
  /\ Keyed(first.before) /\ ~isArr(first.before, "mcpServersDisabled")
  /\ ~HasMarker(EntryOf(first))
  /\ \/ first.op = "disable" /\ first.m.item.container = "active"
     \/ first.op = "enable" /\ first.m.item.container = "disabled"

\* C4 (as claimed, for the pairs that can be a round trip): for an item whose
\* entry has no `enabled`, disable then enable of an item of the active
\* container, or enable then disable of an item of the disabled container,
\* leaves both containers holding the entries they held before the pair, each
\* with its value.
C4_RoundTrip ==
  RelocatingPair
    => /\ membersOf(cfg, "mcpServers") = membersOf(first.before, "mcpServers")
       /\ membersOf(cfg, "mcpServersDisabled") = membersOf(first.before, "mcpServersDisabled")

----------------------------------------------------------------------------
(* The resolver on its own: the document is drawn from a set with ids, keys *)
(* and names that differ in case and share values across fields, and from   *)
(* Indexed documents that repeat an entry often enough to exceed the cap on *)
(* the candidates; one call enumerates it and resolves an identifier.       *)

\* entries a document of SpecMatch holds before any is repeated
MaxMatchEntries == 3
\* how often its last active entry may be repeated
MaxCopies == 5

MatchKeys == {<<"a">>, <<"x">>}
MatchIdents == {<<"A">>, <<"a", "b">>, <<"x">>}

MatchEntries ==
  {Entry({}, {}, {}), Entry({<<"a">>}, {}, {}), Entry({<<"A">>}, {}, {}),
   Entry({}, {<<"a">>}, {}), Entry({<<"b">>}, {<<"a">>}, {})}

copies(e, n) == [i \in 1..n |-> e]

KeyedMatchDocs ==
  UNION {{MakeDoc(ms, md) :
            ms \in {c \in MapsUpTo(MatchKeys, MatchEntries, k) : Len(c.kv) = k},
            md \in MapsUpTo(MatchKeys, MatchEntries, MaxMatchEntries - k)} :
         k \in 0..MaxMatchEntries}

IndexedMatchDocs ==
  UNION {{MakeDoc(JArr(ms.el \o copies(ms.el[Len(ms.el)], n)), md) :
            ms \in {c \in ArraysUpTo(MatchEntries, k) : Len(c.el) = k},
            md \in ArraysUpTo(MatchEntries, MaxMatchEntries - k),
            n \in 0..MaxCopies} :
         k \in 1..MaxMatchEntries}
    \cup {MakeDoc(JArr(<<>>), md) : md \in ArraysUpTo(MatchEntries, MaxMatchEntries)}

\* documents without entries: each container empty or absent
EmptyMatchDocs ==
  {MakeDoc(ms, md) : ms \in {Undefined, JMap(<<>>), JArr(<<>>)},
                     md \in {Undefined, JMap(<<>>), JArr(<<>>)}}

InitMatch ==
  /\ cfg \in KeyedMatchDocs \cup IndexedMatchDocs \cup EmptyMatchDocs
  /\ last = NoCall
  /\ first = NoCall
  /\ disk = NoDisk
  /\ pc = "idle"

\* enumerateServers then matchIdentifier, as actionEnable and actionDisable begin
Match(ident) ==
  LET list == enumerateServers(parse(cfg)).list
      m == matchIdentifier(list, ident)
  IN /\ last.op = "none"
     /\ last' = [op |-> "match", ident |-> ident, before |-> cfg, m |-> m, list |-> list,
                 outcome |-> IF m.ok THEN "ok" ELSE IF m.ambiguous THEN "ambiguous" ELSE "nomatch",
                 changes |-> <<>>]
     /\ UNCHANGED <<cfg, first, disk, pc>>

NextMatch == \E ident \in MatchIdents : Match(ident)

SpecMatch == InitMatch /\ [][NextMatch]_vars

----------------------------------------------------------------------------
(* Properties of the resolver (SpecMatch) *)

\* item it equals the identifier of the latest call on field f, case apart
Hit(it, f) == it[f] # Undefined /\ toLowerCase(it[f].s) = toLowerCase(last.ident)

\* the positions of the enumeration that equal the identifier on field f
Hits(f) == {i \in 1..Len(last.list) : Hit(last.list[i], f)}

\* the hits of the highest-priority field that has any
TopHits ==
  IF Hits("id") # {} THEN Hits("id") ELSE IF Hits("key") # {} THEN Hits("key") ELSE Hits("name")

\* the j-th smallest element of a set of positions
Nth(S, j) == CHOOSE i \in S : Cardinality({k \in S : k < i}) = j - 1

\* C8: the resolver tries `id` over all items, then `key` only if no id equals the
\* identifier, then `name` only if no key does; it resolves exactly when the
\* highest-priority field with a hit has one hit, to that item, whatever the
\* lower-priority fields of other items hold.
C8_ResolverPriority ==
  last.op = "match"
    => /\ last.m.ok <=> Cardinality(TopHits) = 1
       /\ last.m.ok => last.m.item = last.list[Nth(TopHits, 1)]

C8_Witness ==
  /\ last.op = "match" /\ last.m.ok
  /\ Cardinality(Hits("id")) = 1 /\ Hits("key") # {} /\ Hits("name") # {}
  /\ Hits("key") \cap Hits("id") = {}
  /\ last.m.item.id = JStr(<<"a">>) /\ last.ident = <<"A">>

\* C9: with two or more hits on the highest-priority field that has any, the
\* resolver answers ok=false, ambiguous=true and those hits in enumeration order,
\* the first 5 of them; it answers ambiguous=true in no other case.
C9_ResolverAmbiguity ==
  last.op = "match"
    => LET n == Cardinality(TopHits)
           shown == IF n <= MaxSuggestions THEN n ELSE MaxSuggestions
       IN /\ (~last.m.ok /\ last.m.ambiguous) <=> n >= 2
          /\ n >= 2 => /\ Len(last.m.suggestions) = shown
                       /\ \A j \in 1..shown :
                            last.m.suggestions[j] = last.list[Nth(TopHits, j)]

C9_Witness ==
  /\ last.op = "match" /\ ~last.m.ok /\ last.m.ambiguous
  /\ Cardinality(Hits("id")) = 6 /\ Len(last.m.suggestions) = 5
  /\ Hits("name") \ Hits("id") # {}

\* C10 (as claimed): the suggestions of a not-found answer are at most 5 and no
\* item is among them more than once.
C10_SuggestionsDistinct ==
  (last.op = "match" /\ ~last.m.ok /\ ~last.m.ambiguous)
    => /\ Len(last.m.suggestions) <= MaxSuggestions
       /\ \A i, j \in 1..Len(last.m.suggestions) :
            i # j => last.m.suggestions[i] # last.m.suggestions[j]

\* the fields a candidate is taken from, in generation order
CandFields == <<"id", "key", "name">>

\* the candidates of the latest call: item position and field, the field populated
Cands ==
  {c \in (1..Len(last.list)) \X (1..3) : last.list[c[1]][CandFields[c[2]]] # Undefined}

\* distance between the identifier and the candidate's field value, case apart
DistOf(c) ==
  levenshtein(toLowerCase(last.ident), toLowerCase(last.list[c[1]][CandFields[c[2]]].s))

\* c comes before d: nearer, or as near and generated earlier
Precedes(c, d) ==
  \/ DistOf(c) < DistOf(d)
  \/ /\ DistOf(c) = DistOf(d)
     /\ (c[1] < d[1] \/ (c[1] = d[1] /\ c[2] < d[2]))

RankOf(c) == 1 + Cardinality({d \in Cands : Precedes(d, c)})

NotFound == last.op = "match" /\ ~last.m.ok /\ ~last.m.ambiguous

\* C11: the suggestions of a not-found answer are the items of the candidates
\* (one per populated id, key, name) in ascending order of the case-insensitive
\* Levenshtein distance to the identifier, candidates of equal distance in
\* generation order (item by item, id then key then name), the first 5 of them;
\* so the first suggestion owns a field value of minimal distance.
C11_SuggestionRanking ==
  NotFound
    => /\ Len(last.m.suggestions) = Min2(MaxSuggestions, Cardinality(Cands))
       /\ \A c \in Cands :
            RankOf(c) <= MaxSuggestions => last.m.suggestions[RankOf(c)] = last.list[c[1]]
       /\ last.m.suggestions # <<>>
            => \E c \in Cands :
                 /\ last.list[c[1]] = last.m.suggestions[1]
                 /\ \A d \in Cands : DistOf(c) <= DistOf(d)

\* the nearest candidate is not the first generated, and two candidates tie
C11_Witness ==
  /\ NotFound /\ last.ident = <<"a", "b">>
  /\ Len(last.list) >= 2
  /\ last.m.suggestions[1] = last.list[2]
  /\ DistOf(<<1, 2>>) = 2
  /\ \E c, d \in Cands : c # d /\ DistOf(c) = DistOf(d)

\* item it has no populated id, key or name
Unpopulated(it) == it.id = Undefined /\ it.key = Undefined /\ it.name = Undefined

\* C12: on an empty enumeration (both containers empty or absent) the resolver
\* answers not-found with no suggestions, never ambiguous, whatever the
\* identifier; and an item with no populated id, key or name is never the
\* resolved item nor among the candidates of an ambiguous answer nor among the
\* suggestions of a not-found answer.
C12_EmptyAndUnpopulated ==
  last.op = "match"
    => /\ last.list = <<>>
            => (~last.m.ok /\ ~last.m.ambiguous /\ last.m.suggestions = <<>>)
       /\ \A i \in 1..Len(last.list) :
            Unpopulated(last.list[i])
              => /\ last.m.ok => last.m.item # last.list[i]
                 /\ ~last.m.ok => last.list[i] \notin Range(last.m.suggestions)

\* a not-found answer with suggestions over a list whose first item is unpopulated
C12_Witness ==
  /\ NotFound /\ Len(last.list) >= 2
  /\ Unpopulated(last.list[1])
  /\ last.m.suggestions # <<>>
  /\ "mcpServersDisabled" \in DOMAIN cfg

----------------------------------------------------------------------------
(* The schema functions on their own: detectSchema, enumerateServers and    *)
(* ensureContainers applied to documents whose containers are absent, null, *)
(* a scalar of any JSON type, a mapping or a sequence; ensureContainers is  *)
(* applied up to twice, so that a second application is seen.               *)

\* entries a document of SpecSchema holds, both containers together
MaxSchemaEntries == 2

Scalars ==
  {JNull, JStr(<<>>), JStr(<<"s">>), JNum(0), JNum(1), JBool(FALSE), JBool(TRUE)}

SchemaEntries ==
  {JNull, Entry({}, {}, {}), Entry({<<"a">>}, {}, {}), Entry({}, {}, {TRUE}),
   Entry({<<"a">>}, {}, {FALSE})}

SchemaContainers(n) ==
  {Undefined} \cup Scalars \cup MapsUpTo(Keys, SchemaEntries, n)
    \cup ArraysUpTo(SchemaEntries, n)

SchemaDocs ==
  UNION {{MakeDoc(ms, md) : ms \in {c \in SchemaContainers(k) : Len(entriesOf(c)) = k},
                            md \in SchemaContainers(MaxSchemaEntries - k)} :
         k \in 0..MaxSchemaEntries}

InitSchema ==
  /\ cfg \in SchemaDocs
  /\ last = NoCall
  /\ first = NoCall
  /\ disk = NoDisk
  /\ pc = "idle"

\* detectSchema(cfg) on the document as parsed
Detect ==
  /\ last.op = "none"
  /\ last' = [op |-> "detect", before |-> cfg, schema |-> detectSchema(parse(cfg))]
  /\ UNCHANGED <<cfg, first, disk, pc>>

\* enumerateServers(cfg) on the document as parsed
Enumerate ==
  LET en == enumerateServers(parse(cfg))
  IN /\ last.op = "none"
     /\ last' = [op |-> "enumerate", before |-> cfg, list |-> en.list, heap |-> en.heap]
     /\ UNCHANGED <<cfg, first, disk, pc>>

\* ensureContainers(cfg, shape), a first or a second time
Ensure(shape) ==
  /\ last.op \in {"none", "ensure"}
  /\ first.op = "none"
  /\ cfg' = ensureContainers(cfg, shape)
  /\ last' = [op |-> "ensure", shape |-> shape, before |-> cfg]
  /\ first' = last
  /\ UNCHANGED <<disk, pc>>

NextSchema == Detect \/ Enumerate \/ \E shape \in {"object", "array"} : Ensure(shape)

SpecSchema == InitSchema /\ [][NextSchema]_vars

----------------------------------------------------------------------------
(* Properties of the schema functions (SpecSchema) *)

\* C13 (as claimed): detectSchema answers object with hasEnabled=false when
\* mcpServers is absent, object when it is a mapping and array when it is a
\* sequence, hasEnabled being true exactly when some entry of mcpServers has its
\* own `enabled` whatever its value; and it throws the unsupported-schema error
\* for every mcpServers that is a string, a number or a boolean.
C13_ShapeDetection ==
  last.op = "detect"
    => LET ms == Get(last.before, "mcpServers")
           es == entriesOf(ms)
           marked == \E i \in 1..Len(es) : HasMarker(es[i])
           answers(shape, flag) ==
             /\ ~last.schema.throw
             /\ last.schema.shape = shape
             /\ last.schema.hasEnabled = flag
       IN /\ ms = Undefined => answers("object", FALSE)
          /\ ms.t = "map" => answers("object", marked)
          /\ ms.t = "array" => answers("array", marked)
          /\ ms.t \in {"string", "number", "boolean"}
               => /\ last.schema.throw
                  /\ last.schema.error = "Unsupported mcpServers schema"

\* the entry behind item it of an enumeration of doc, as the document holds it
EntryAt(doc, it) ==
  IF it.shape = "object"
  THEN valueAt(doc, FieldOf(it.container), it.key.s)
  ELSE elemsOf(doc, FieldOf(it.container))[it.index.n + 1]

\* C15: every item of an enumeration has status 'disabled' exactly when its
\* container is the disabled one or its entry has an own `enabled` that is
\* false, and status 'enabled' otherwise.
C15_StatusDerivation ==
  last.op = "enumerate"
    => \A i \in 1..Len(last.list) :
         LET it == last.list[i]
             e == EntryAt(last.before, it)
         IN /\ it.status \in {"enabled", "disabled"}
            /\ it.status = "disabled"
                 <=> \/ it.container = "disabled"
                     \/ HasMarker(e) /\ e.f.enabled = JBool(FALSE)

\* two active items, one with enabled=true and one with enabled=false
C15_Witness ==
  /\ last.op = "enumerate" /\ Len(last.list) = 2
  /\ last.list[1].container = "active" /\ last.list[2].container = "active"
  /\ EntryAt(last.before, last.list[1]) = Entry({}, {}, {TRUE})
  /\ last.list[1].status = "enabled"
  /\ EntryAt(last.before, last.list[2]) = Entry({<<"a">>}, {}, {FALSE})
  /\ last.list[2].status = "disabled"

\* item it stands for entry e (a null or a reference of the parsed document) at
\* place n of the given container: it links to the object of e, or to a fresh
\* empty object where e is null
StandsFor(it, e, c, n, container, heap0) ==
  /\ it.container = container
  /\ IF c.t = "map"
     THEN it.shape = "object" /\ it.key = JStr(c.kv[n].k) /\ it.index = Undefined
     ELSE it.shape = "array" /\ it.index = JNum(n - 1) /\ it.key = Undefined
  /\ IF e.t = "ref" THEN it.def = e
     ELSE it.def.r > Len(heap0) /\ last.heap[it.def.r] = EmptyObj

\* C16: enumerateServers answers one item per entry, the entries of the active
\* container in storage order and then those of the disabled container in
\* storage order, each with its container, its key or position and a link to
\* its entry; a disabled container of the other shape than the active one adds
\* no item, and nothing is thrown.
C16_EnumerationBijective ==
  last.op = "enumerate"
    => LET mem == parse(last.before)
           ms == Get(mem.doc, "mcpServers")
           md == Get(mem.doc, "mcpServersDisabled")
           act == IF ms.t \in {"map", "array"} THEN entriesOf(ms) ELSE <<>>
           sameShape == IF ms.t = "array" THEN md.t = "array" ELSE md.t = "map"
           dis == IF sameShape THEN entriesOf(md) ELSE <<>>
       IN /\ Len(last.list) = Len(act) + Len(dis)
          /\ \A n \in 1..Len(act) :
               StandsFor(last.list[n], act[n], ms, n, "active", mem.heap)
          /\ \A n \in 1..Len(dis) :
               StandsFor(last.list[Len(act) + n], dis[n], md, n, "disabled", mem.heap)

\* a null entry is enumerated, and a disabled container of the other shape is not
C16_Witness ==
  /\ last.op = "enumerate" /\ Len(last.list) = 1
  /\ Get(last.before, "mcpServers") = JMap(<<[k |-> <<"y">>, v |-> JNull]>>)
  /\ isArr(last.before, "mcpServersDisabled")
  /\ Len(elemsOf(last.before, "mcpServersDisabled")) = 1
  /\ last.list[1].key = JStr(<<"y">>)

\* C17: after ensureContainers(cfg, shape) both containers exist with the shape
\* asked for; one that had that shape before is the one it was, with all its
\* entries; one that was missing or of any other type is an empty container
\* of the shape; and a second call with the same shape changes nothing.
C17_EnsureContainers ==
  last.op = "ensure"
    => LET want == IF last.shape = "object" THEN "map" ELSE "array"
           empty == IF last.shape = "object" THEN JMap(<<>>) ELSE JArr(<<>>)
       IN /\ \A n \in {"mcpServers", "mcpServersDisabled"} :
               /\ n \in DOMAIN cfg
               /\ cfg[n].t = want
               /\ cfg[n] = IF Get(last.before, n).t = want THEN last.before[n] ELSE empty
          /\ (first.op = "ensure" /\ first.shape = last.shape) => cfg = last.before

\* a second call after a first that kept one container and replaced a scalar
C17_Witness ==
  /\ last.op = "ensure" /\ first.op = "ensure"
  /\ first.shape = "object" /\ last.shape = "object"
  /\ isMap(first.before, "mcpServers")
  /\ Len(Get(first.before, "mcpServers").kv) = 1
  /\ Get(first.before, "mcpServersDisabled").t = "number"
  /\ cfg["mcpServers"] = first.before["mcpServers"]
  /\ cfg["mcpServersDisabled"] = JMap(<<>>)

----------------------------------------------------------------------------
(* The command line program (ccmcp.js): one invocation of list, enable or   *)
(* disable on a configuration file, followed through the file operations it *)
(* makes, one at a time.                                                    *)

\* entries a configuration file of SpecDisk holds, both containers together
MaxDiskEntries == 2

DiskEntries ==
  {Entry({}, {}, {}), Entry({<<"a">>}, {}, {}), Entry({<<"a">>}, {}, {FALSE})}

DiskContainers(n) ==
  {Undefined, JStr(<<"s">>)} \cup MapsUpTo(Keys, DiskEntries, n) \cup ArraysUpTo(DiskEntries, n)

DiskDocs ==
  UNION {{MakeDoc(ms, md) : ms \in {c \in DiskContainers(k) : Len(entriesOf(c)) = k},
                            md \in DiskContainers(MaxDiskEntries - k)} :
         k \in 0..MaxDiskEntries}

\* the file as the tool writes it, or as an editor left it
DiskTexts(d) == {Text(d, 2, TRUE), Text(d, 4, FALSE)}

\* nothing is loaded yet
NoDoc == <<>>

\* what a backup of an earlier invocation holds
OlderBackup == raw(MakeDoc(Undefined, Undefined))

\* the files next to the configuration file: none, or an older backup
Beside == {<<>>, [q \in {bakPath(cfgPath, 1)} |-> OlderBackup]}

\* the directory holds the configuration file, valid or not, or no file, and
\* with the file there may be a backup an earlier invocation made
InitDisk ==
  /\ cfg = NoDoc
  /\ last = NoCall
  /\ first = NoCall
  /\ disk \in {[files |-> put(older, cfgPath, text), log |-> <<>>] :
                 text \in UNION {DiskTexts(d) : d \in DiskDocs} \cup {Garbage},
                 older \in Beside}
               \cup {[files |-> <<>>, log |-> <<>>]}
  /\ pc = "idle"

\* the record of a call that ended with an error thrown by r
Failed(op, which, r) ==
  [op |-> op, which |-> which, ident |-> <<>>, before |-> NoDoc, m |-> <<>>,
   outcome |-> r.message, changes |-> <<>>, dryRun |-> FALSE,
   files0 |-> disk.files, code |-> r.codeEx]

\* main: resolveConfigPath throws ioErr when the file is not there; exit
ConfigNotFound ==
  /\ pc = "idle"
  /\ cfgPath \notin DOMAIN disk.files
  /\ last' = Failed("main", "ccmcp", [codeEx |-> EX_IO, message |-> "Config file not found"])
  /\ pc' = "exit"
  /\ UNCHANGED <<cfg, first, disk>>

\* main: readJson throws; process.exit(e.codeEx || EX_IO)
ReadFails ==
  /\ pc = "idle"
  /\ cfgPath \in DOMAIN disk.files
  /\ readJson(disk.files, cfgPath).throw
  /\ last' = Failed("main", "ccmcp", readJson(disk.files, cfgPath))
  /\ pc' = "exit"
  /\ UNCHANGED <<cfg, first, disk>>

\* a call of readJson on its own, of ccmcp.js or of lib/config.js
ReadJson(which) ==
  LET r == IF which = "ccmcp" THEN readJson(disk.files, cfgPath)
           ELSE configReadJson(disk.files, cfgPath)
  IN /\ pc = "idle"
     /\ last' = IF r.throw THEN Failed("readJson", which, r)
                ELSE [op |-> "readJson", which |-> which, ident |-> <<>>, before |-> r.value,
                      m |-> <<>>, outcome |-> "ok", changes |-> <<>>, dryRun |-> FALSE,
                      files0 |-> disk.files, code |-> EX_OK]
     /\ pc' = "returned"
     /\ UNCHANGED <<cfg, first, disk>>

\* main with `list`: readJson, actionList, exit
ListCmd ==
  LET doc == readJson(disk.files, cfgPath).value
  IN /\ pc = "idle"
     /\ ~readJson(disk.files, cfgPath).throw
     /\ cfg' = doc
     /\ last' = [op |-> "list", ident |-> <<>>, before |-> doc, m |-> <<>>,
                 list |-> enumerateServers(parse(doc)).list,
                 outcome |-> "ok", changes |-> <<>>, dryRun |-> FALSE,
                 files0 |-> disk.files, code |-> EX_OK]
     /\ pc' = "exit"
     /\ UNCHANGED <<first, disk>>

\* the record of an enable or disable invocation
Invoked(op, ident, dryRun, doc, r) ==
  [op |-> op, ident |-> ident, before |-> doc, m |-> r.m, outcome |-> r.outcome,
   changes |-> r.changes, dryRun |-> dryRun, files0 |-> disk.files,
   code |-> exitCode(r.outcome)]

\* main with `enable`: readJson, actionEnable up to `// Write out`
EnableCmd(ident, dryRun) ==
  /\ pc = "idle"
  /\ ~readJson(disk.files, cfgPath).throw
  /\ \E doc \in {readJson(disk.files, cfgPath).value} :
       \E r \in {run("enable", doc, ident)} :
         /\ cfg' = r.after
         /\ last' = Invoked("enable", ident, dryRun, doc, r)
         /\ pc' = nextStep(r.outcome, dryRun)
  /\ UNCHANGED <<first, disk>>

\* main with `disable`: readJson, actionDisable up to `// Write out`
DisableCmd(ident, dryRun) ==
  /\ pc = "idle"
  /\ ~readJson(disk.files, cfgPath).throw
  /\ \E doc \in {readJson(disk.files, cfgPath).value} :
       \E r \in {run("disable", doc, ident)} :
         /\ cfg' = r.after
         /\ last' = Invoked("disable", ident, dryRun, doc, r)
         /\ pc' = nextStep(r.outcome, dryRun)
  /\ UNCHANGED <<first, disk>>

\* const bak = backupFile(cfgPath)
Backup ==
  /\ pc = "backupFile"
  /\ \E stamp \in nowStamp(disk.files, cfgPath) : disk' = backupFile(disk, cfgPath, stamp)
  /\ pc' = "writeJsonAtomic"
  /\ UNCHANGED <<cfg, last, first>>

\* writeJsonAtomic: fs.writeFileSync(tmp, raw) has opened the temp file
WriteOpen ==
  /\ pc = "writeJsonAtomic"
  /\ \E part \in prefixes(raw(cfg)) : disk' = writeFileOpen(disk, tmpPath(cfgPath), part)
  /\ pc' = "writeFileSync"
  /\ UNCHANGED <<cfg, last, first>>

\* writeJsonAtomic: fs.writeFileSync(tmp, raw) returns
WriteDone ==
  /\ pc = "writeFileSync"
  /\ disk' = writeFileSync(disk, tmpPath(cfgPath), raw(cfg))
  /\ pc' = "renameSync"
  /\ UNCHANGED <<cfg, last, first>>

\* writeJsonAtomic: fs.renameSync(tmp, p); the action returns EX_OK
Rename ==
  /\ pc = "renameSync"
  /\ disk' = renameSync(disk, tmpPath(cfgPath), cfgPath)
  /\ pc' = "exit"
  /\ UNCHANGED <<cfg, last, first>>

NextDisk ==
  \/ ConfigNotFound
  \/ ReadFails
  \/ \E which \in {"ccmcp", "config"} : ReadJson(which)
  \/ ListCmd
  \/ \E ident \in Idents : \E dryRun \in BOOLEAN : EnableCmd(ident, dryRun)
  \/ \E ident \in Idents : \E dryRun \in BOOLEAN : DisableCmd(ident, dryRun)
  \/ Backup
  \/ WriteOpen
  \/ WriteDone
  \/ Rename

SpecDisk == InitDisk /\ [][NextDisk]_vars

----------------------------------------------------------------------------
(* Properties of an invocation (SpecDisk) *)

\* the invocation is an enable or a disable
Toggling == last.op \in {"enable", "disable"}

\* the process has exited
Exited == pc = "exit" /\ last.op # "none"

\* the configuration file as the invocation found it
Before == last.files0[cfgPath]

\* no file was created, removed or changed and no file operation was made
Untouched == disk.files = last.files0 /\ disk.log = <<>>

\* the file operations so far that write the configuration file
Writes ==
  {i \in 1..Len(disk.log) :
     disk.log[i].op \in {"writeFile", "rename"} /\ disk.log[i].to = cfgPath}

\* the file operations so far that copy the configuration file
Backups ==
  {i \in 1..Len(disk.log) : disk.log[i].op = "copyFile" /\ disk.log[i].from = cfgPath}

\* C14 (as claimed): list, enable and disable on a file whose mcpServers is
\* there but is neither a mapping nor a sequence all exit with the
\* unsupported-schema code 5, having written nothing; none exits with 0 or with
\* the no-match code.
C14_UnsupportedSchemaFatal ==
  (/\ Exited
   /\ "mcpServers" \in DOMAIN last.before
   /\ Get(last.before, "mcpServers").t \notin {"map", "array"})
    => /\ last.code = EX_JSON
       /\ Untouched

\* C18: an enable or disable with --dry-run, however it resolves and whatever
\* the transition, makes no backup and leaves the configuration file with the
\* content it had; no file of the directory is created or changed.
C18_DryRunNeverPersists ==
  (Toggling /\ last.dryRun) => (Untouched /\ disk.files[cfgPath] = Before)

\* a dry run that moved an entry in memory and exited with 0
C18_Witness ==
  /\ Exited /\ Toggling /\ last.dryRun
  /\ last.outcome = "ok" /\ last.code = EX_OK /\ Moved
  /\ cfg # last.before
  /\ readJson(disk.files, cfgPath).value = last.before

\* C19: every write of the configuration file comes after exactly one copy of
\* it made by the same invocation, the copy holding the content the file had
\* before the write; an enable or disable that succeeds without --dry-run has
\* written the file exactly once when it exits.
C19_BackupBeforeWrite ==
  /\ \A i \in Writes :
       /\ Cardinality({j \in Backups : j < i}) = 1
       /\ \A j \in Backups :
            /\ disk.log[j].to \in DOMAIN disk.files
            /\ disk.files[disk.log[j].to] = Before
  /\ (Exited /\ Toggling /\ last.outcome = "ok" /\ ~last.dryRun)
       => Cardinality(Writes) = 1

\* a successful disable has exited, its clock reading later than the stamp of
\* an older backup: the file has new content, the copy the old, and the older
\* backup is kept
C19_Witness ==
  /\ Exited /\ last.op = "disable" /\ last.outcome = "ok" /\ ~last.dryRun
  /\ Cardinality(Writes) = 1 /\ Cardinality(Backups) = 1
  /\ disk.files[cfgPath].data # Before.data
  /\ bakPath(cfgPath, 1) \in DOMAIN last.files0
  /\ disk.files[bakPath(cfgPath, 1)] = OlderBackup
  /\ disk.files[bakPath(cfgPath, 2)] = Before
  /\ Before # OlderBackup

\* C20: at every step of an enable or disable the configuration file holds
\* all of its previous content or all of its new content, never a part; when
\* the write has succeeded it holds the document as JSON indented by 2 with a
\* newline at the end, and the directory holds no temp file: nothing but the
\* configuration file, the backup of this invocation and backups it held
\* before.
C20_AtomicReplace ==
  Toggling
    => /\ disk.files[cfgPath].complete
       /\ disk.files[cfgPath] \in {Before, raw(cfg)}
       /\ (Exited /\ last.outcome = "ok" /\ ~last.dryRun)
            => /\ disk.files[cfgPath]
                    = [data |-> cfg, indent |-> 2, eol |-> TRUE, complete |-> TRUE]
               /\ tmpPath(cfgPath) \notin DOMAIN disk.files
               /\ DOMAIN disk.files
                    = {cfgPath} \cup {bakPath(cfgPath, n) : n \in stampsOf(disk.files, cfgPath)}
               /\ \E j \in Backups :
                    \A q \in DOMAIN disk.files \ {cfgPath, disk.log[j].to} :
                      \E q0 \in DOMAIN last.files0 \ {cfgPath} : disk.files[q] = last.files0[q0]
               /\ Cardinality(DOMAIN disk.files) <= Cardinality(DOMAIN last.files0) + 1

\* the temp file is being written: it holds a part of the new text, the
\* configuration file still all of the old
C20_Witness ==
  /\ Toggling /\ pc = "writeFileSync"
  /\ tmpPath(cfgPath) \in DOMAIN disk.files
  /\ ~disk.files[tmpPath(cfgPath)].complete
  /\ disk.files[cfgPath] = Before
  /\ Before.data # cfg /\ Before.indent = 4

\* C21: an enable or disable whose identifier resolves to nothing exits with
\* code 2, one whose identifier is ambiguous exits with code 3, and either
\* exits at once: the document in memory is the document read, no backup is
\* made and no file is written, with or without --dry-run.
C21_MatchFailuresHaveNoEffect ==
  (Toggling /\ ~last.m.ok)
    => /\ Exited
       /\ last.outcome = (IF last.m.ambiguous THEN "ambiguous" ELSE "nomatch")
       /\ last.code = (IF last.m.ambiguous THEN EX_AMBIG ELSE EX_NO_MATCH)
       /\ cfg = last.before
       /\ Untouched
       /\ Writes = {} /\ Backups = {}

\* an ambiguous disable without --dry-run has exited with 3
C21_Witness ==
  /\ Exited /\ last.op = "disable" /\ ~last.dryRun
  /\ ~last.m.ok /\ last.m.ambiguous /\ Len(last.m.suggestions) = 2
  /\ last.code = EX_AMBIG
  /\ disk.files = last.files0

\* the failure kinds an enable or disable can end with
FailureKinds == {"unsupported schema", "nomatch", "ambiguous", "unsupported transition"}

\* C23 (as claimed): an invocation that ends with one of the four failure kinds
\* exits with a code that is not 0 and that no other of the four kinds exits
\* with.
C23_FailureKindsDistinct ==
  (Exited /\ Toggling /\ last.outcome \in FailureKinds)
    => /\ last.code # EX_OK
       /\ \A kind \in FailureKinds \ {last.outcome} : exitCode(kind) # last.code

\* the file the latest call read exists and can be read but is no JSON
ReadInvalid == cfgPath \in DOMAIN last.files0 /\ JSONparse(last.files0[cfgPath]).throw

\* C22 (as claimed): readJson of ccmcp.js and readJson of lib/config.js, called
\* on their own or by main, fail with EX_JSON (5) on a file that is there but
\* does not parse, and with EX_IO (4) only when the file is not there.
C22_InvalidJsonIsJsonError ==
  (last.op \in {"readJson", "main"})
    => /\ ReadInvalid => last.code = EX_JSON
       /\ last.code = EX_IO => cfgPath \notin DOMAIN last.files0

\* C25 (as claimed): every item of an enumeration links to the entry the
\* document holds at the item's place, for a null entry too, so that setting
\* `enabled` through the item shows in the entry the document serializes.
C25_ItemsAliasStorage ==
  last.op = "enumerate"
    => LET mem == parse(last.before)
       IN \A i \in 1..Len(last.list) :
            LET it == last.list[i]
                written == stringify([doc |-> mem.doc,
                                      heap |-> setEnabled(last.heap, it.def, FALSE)])
                e == EntryAt(written, it)
            IN /\ it.def = EntryAt(mem.doc, it)
               /\ e.t = "object"
               /\ hasOwnProperty(e.f, "enabled") /\ e.f.enabled = JBool(FALSE)

\* the item that stands, in an enumeration of the document as it is now, for
\* the entry the latest call resolved: at the same place, or where the call
\* reported to have moved it (under the same key, or at the end of mcpServers[])
ItemsNow == enumerateServers(parse(cfg)).list

IsTargetNow(it) ==
  /\ it.container = (IF Moved THEN (IF Target.container = "active" THEN "disabled" ELSE "active")
                     ELSE Target.container)
  /\ it.shape = Target.shape
  /\ IF Target.shape = "object" THEN it.key = Target.key
     ELSE IF Moved THEN it.index = JNum(Len(elemsOf(cfg, "mcpServers")) - 1)
     ELSE it.index = Target.index

\* C26: after a successful enable of a resolved item the entry enumerates with
\* status 'enabled', after a successful disable with status 'disabled',
\* whatever the shape, the container it started in and its `enabled`.
C26_TargetStatusReached ==
  (Resolved /\ last.outcome = "ok")
    => \E i \in 1..Len(ItemsNow) :
         /\ IsTargetNow(ItemsNow[i])
         /\ ItemsNow[i].status = (IF last.op = "enable" THEN "enabled" ELSE "disabled")

\* an entry with enabled=false in mcpServersDisabled[] is enabled: moved and set
C26_Witness ==
  /\ Resolved /\ last.outcome = "ok" /\ last.op = "enable"
  /\ Indexed(last.before) /\ Target.container = "disabled"
  /\ TargetEntry = Entry({<<"a">>}, {}, {FALSE})
  /\ Moved
  /\ \E i \in 1..Len(ItemsNow) : IsTargetNow(ItemsNow[i]) /\ ItemsNow[i].status = "enabled"

\* C29: on every document that detectSchema accepts, each item of the
\* enumeration has the shape detectSchema answers, with a key and no index
\* when that shape is object and an index and no key when it is array.
C29_DetectorAndNormalizerAgree ==
  (last.op = "enumerate" /\ ~detectSchema(parse(last.before)).throw)
    => \A i \in 1..Len(last.list) :
         LET it == last.list[i]
         IN /\ it.shape = detectSchema(parse(last.before)).shape
            /\ it.shape = "object" => it.key.t = "string" /\ it.index = Undefined
            /\ it.shape = "array" => it.index.t = "number" /\ it.key = Undefined

\* mcpServers is null and the items come from the mapping mcpServersDisabled
C29_Witness ==
  /\ last.op = "enumerate"
  /\ Get(last.before, "mcpServers") = JNull
  /\ detectSchema(parse(last.before)).shape = "object"
  /\ Len(last.list) = 2
  /\ last.list[1].shape = "object" /\ last.list[1].container = "disabled"
  /\ last.list[2].key = JStr(<<"y">>) /\ last.list[2].index = Undefined

\* the transition of the latest call once more, on the document and the item
\* it had, with the document-wide flag of the schema set to hasEnabled
PerformWith(hasEnabled) ==
  LET mem0 == parse(last.before)
      mem1 == [doc |-> mem0.doc, heap |-> enumerateServers(mem0).heap]
      schema == [detectSchema(mem1) EXCEPT !.hasEnabled = hasEnabled]
  IN IF last.op = "enable" THEN performEnable(mem1, Target, schema)
     ELSE performDisable(mem1, Target, schema)

\* the latest call reported that it set the flag of the entry
Toggled ==
  \E i \in 1..Len(last.changes) :
    last.changes[i].text \in {"set enabled=true", "set enabled=false"}

\* C30 (as claimed): performEnable and performDisable give the same document,
\* the same change descriptions and the same error with hasEnabled true as with
\* hasEnabled false, and whether a call sets the flag or moves the entry goes
\* by the entry's own `enabled` alone: set only when present, moved only when
\* absent.
C30_MarkerFlagHasNoInfluence ==
  (Resolved /\ last.outcome \in {"ok", "unsupported transition"})
    => /\ PerformWith(TRUE) = PerformWith(FALSE)
       /\ Toggled => HasMarker(TargetEntry)
       /\ Moved => ~HasMarker(TargetEntry)

-----------------------------------------------------------------------------
(* Sequences of calls of any length on a Keyed document whose containers    *)
(* share no key, all of them with --dry-run or all of them without; first   *)
(* keeps the document the sequence started from and the dryRun it runs with.*)

AllKeys(doc) == keysOf(doc, "mcpServers") \cup keysOf(doc, "mcpServersDisabled")

DisjointKeys(doc) == keysOf(doc, "mcpServers") \cap keysOf(doc, "mcpServersDisabled") = {}

\* entries a container of SpecKeys holds
MaxKeyEntries == 2

\* the values under the keys: null, or an object with an id and a flag
KeyEntries == {JNull, Entry({<<"a">>}, {}, {FALSE})}

KeyContainers == {Undefined} \cup MapsUpTo(Keys, KeyEntries, MaxKeyEntries)

KeyDocs == {d \in {MakeDoc(ms, md) : ms \in KeyContainers, md \in KeyContainers} :
              DisjointKeys(d)}

InitKeys ==
  /\ cfg \in KeyDocs
  /\ last = NoCall
  /\ first \in {[NoCall EXCEPT !.op = "start", !.before = cfg, !.dryRun = dryRun] :
                  dryRun \in BOOLEAN}
  /\ disk = OnDisk(cfg)
  /\ pc = "idle"

\* clock seconds with a backup that a sequence of calls is followed through
MaxSeconds == 2

\* the next call of the sequence; a sequence is followed until the directory
\* holds backups of MaxSeconds clock seconds
NextKeys ==
  /\ Cardinality(stampsOf(disk.files, cfgPath)) < MaxSeconds
  /\ \E ident \in Idents : Enable(ident, first.dryRun) \/ Disable(ident, first.dryRun)

SpecKeys == InitKeys /\ [][NextKeys]_vars

\* C28: from a Keyed document whose two containers share no key, after any
\* sequence of enable and disable calls the two containers still share no key
\* and their keys together are the keys the sequence started with.
C28_KeyConservation ==
  /\ DisjointKeys(cfg)
  /\ AllKeys(cfg) = AllKeys(first.before)

\* both entries of mcpServers were moved to mcpServersDisabled, one after the
\* other and in different clock seconds, each call leaving its own backup
C28_Witness ==
  /\ keysOf(first.before, "mcpServers") = {<<"x">>, <<"y">>}
  /\ keysOf(first.before, "mcpServersDisabled") = {}
  /\ last.op = "disable" /\ last.outcome = "ok" /\ Moved
  /\ ~last.dryRun /\ disk.files[cfgPath] = raw(cfg)
  /\ stampsOf(disk.files, cfgPath) = {1, 2}
  /\ disk.files[bakPath(cfgPath, 1)] = raw(first.before)
  /\ disk.files[bakPath(cfgPath, 2)] = raw(last.before)
  /\ keysOf(cfg, "mcpServers") = {}
  /\ keysOf(cfg, "mcpServersDisabled") = {<<"x">>, <<"y">>}

-----------------------------------------------------------------------------
(* The same call twice on one identifier: the document is enumerated and    *)
(* resolved afresh by the second call.                                      *)

AgainCall ==
  /\ last.op \in {"enable", "disable"}
  /\ first.op = "none"
  /\ \E r \in {run(last.op, cfg, last.ident)} :
       \E w \in {writeOut(disk.files, cfgPath, r.outcome, last.dryRun, r.after, stamp) :
                  stamp \in nowStamp(disk.files, cfgPath)} :
         /\ cfg' = r.after
         /\ last' = Called(last.op, last.ident, last.dryRun, cfg, r, w)
         /\ disk' = w.disk
  /\ first' = last
  /\ UNCHANGED pc

NextTwice ==
  \/ \E ident \in Idents : \E dryRun \in BOOLEAN :
       FirstCall("enable", ident, dryRun) \/ FirstCall("disable", ident, dryRun)
  \/ AgainCall

SpecTwice == Init /\ [][NextTwice]_vars

\* what a call reports when it found nothing to do
NothingToDo ==
  {"kept in mcpServers", "kept entry in mcpServers[]",
   "already in mcpServersDisabled under key", "already enabled=false"}

\* C27: when an enable (a disable) succeeded, the same call once more succeeds
\* too, leaves the document equal to the document after the first call, and
\* reports 'kept ...' / 'already ...' descriptions only.
C27_Idempotence ==
  (first.op \in {"enable", "disable"} /\ first.outcome = "ok")
    => /\ last.op = first.op
       /\ last.outcome = "ok"
       /\ cfg = last.before
       /\ \A i \in 1..Len(last.changes) : last.changes[i].text \in NothingToDo

\* an entry of mcpServersDisabled[] with enabled=false is enabled twice
C27_Witness ==
  /\ first.op = "enable" /\ first.outcome = "ok" /\ Len(first.changes) = 2
  /\ Indexed(first.before) /\ first.m.item.container = "disabled"
  /\ last.op = "enable" /\ last.outcome = "ok"
  /\ last.m.item.container = "active"
  /\ Len(last.changes) = 1 /\ last.changes[1].text = "kept entry in mcpServers[]"

-----------------------------------------------------------------------------
(* levenshtein on its own: every pair of strings over a small alphabet.      *)

MaxStrLen == 3
Alphabet == {"a", "A", "b"}
Strings == SeqsUpTo(Alphabet, MaxStrLen)

InitLev ==
  /\ cfg \in {[a |-> a, b |-> b] : a \in Strings, b \in Strings}
  /\ last = NoCall
  /\ first = NoCall
  /\ disk = NoDisk
  /\ pc = "idle"

Levenshtein ==
  /\ pc = "idle"
  /\ last' = [op |-> "levenshtein", a |-> cfg.a, b |-> cfg.b,
               d |-> levenshtein(cfg.a, cfg.b)]
  /\ pc' = "returned"
  /\ UNCHANGED <<cfg, first, disk>>

NextLev == Levenshtein

SpecLev == InitLev /\ [][NextLev]_vars

\* the strings one insertion, one deletion or one substitution away from s
Insertions(s) ==
  {SubSeq(s, 1, i) \o <<c>> \o SubSeq(s, i + 1, Len(s)) : i \in 0..Len(s), c \in Alphabet}
Deletions(s) ==
  {SubSeq(s, 1, i - 1) \o SubSeq(s, i + 1, Len(s)) : i \in 1..Len(s)}
Substitutions(s) ==
  {[s EXCEPT ![i] = c] : i \in 1..Len(s), c \in Alphabet}
OneEdit(s) == (Insertions(s) \cup Deletions(s) \cup Substitutions(s)) \cap Strings

\* the number of rounds of single edits after which b is first reached
RECURSIVE editsFrom(_, _, _)
editsFrom(reached, b, k) ==
  IF b \in reached THEN k
  ELSE editsFrom(reached \cup UNION {OneEdit(s) : s \in reached}, b, k + 1)

minEdits(a, b) == editsFrom({a}, b, 0)

\* a and b are the same string but for the case of one letter
OneCaseApart(a, b) ==
  /\ Len(a) = Len(b)
  /\ toLowerCase(a) = toLowerCase(b)
  /\ Cardinality({i \in 1..Len(a) : a[i] # b[i]}) = 1

\* C24: levenshtein(a, b) is the least number of single-character insertions,
\* deletions and substitutions that turn a into b; it is 0 for equal strings,
\* the length of the other string when one is empty, and 1 for two strings
\* that differ in the case of one letter.
C24_EditDistance ==
  (last.op = "levenshtein")
    => /\ last.d = minEdits(last.a, last.b)
       /\ last.a = last.b => last.d = 0
       /\ last.a = <<>> => last.d = Len(last.b)
       /\ last.b = <<>> => last.d = Len(last.a)
       /\ OneCaseApart(last.a, last.b) => last.d = 1

C24_Witness ==
  /\ last.op = "levenshtein"
  /\ last.a = <<"A", "b", "a">>
  /\ last.b = <<"a", "b">>
  /\ last.d = 2

====
